---- MODULE Spec2Model ----
(***************************************************************************)
(* Cone-beam projector pair of mbirjax/cone_beam.py (class ConeBeamModel): *)
(* verify_valid_params, compute_sparse_Bij_Cij_single_view,                *)
(* forward_project_voxels_one_view and back_project_one_view_to_voxel.     *)
(*                                                                         *)
(* Numbers.  Floating-point quantities (lengths, weights, fractional       *)
(* detector coordinates) are fixed-point integers: the integer v stands    *)
(* for v / SCALE.  Array indices, shapes, voxel values and detector values *)
(* are plain integers.  View angles and the detector rotation are counted  *)
(* in quarter turns, so that cos and sin are exact.  A 1-D array is a      *)
(* sequence (entry e of the code is element e+1), a 2-D array a sequence   *)
(* of rows.                                                                *)
(***************************************************************************)
EXTENDS Integers, Sequences, FiniteSets, TLC

\* ------------------------------------------------------------------------
\* Bounds of the model
\* ------------------------------------------------------------------------
MaxPix == 2
MaxSlices == 3
MaxP == 2

\* ------------------------------------------------------------------------
\* Fixed-point arithmetic standing for the float arithmetic of the code
\* ------------------------------------------------------------------------
SCALE == 64

Abs(a) == IF a < 0 THEN -a ELSE a

Sgn(a) == IF a < 0 THEN -1 ELSE 1

Max(a, b) == IF a >= b THEN a ELSE b

\* n / d rounded to the nearest integer, d > 0
RDiv(n, d) == Sgn(n) * ((2 * Abs(n) + d) \div (2 * d))

Fx(n) == n * SCALE

FxMul(a, b) == RDiv(a * b, SCALE)

FxDiv(a, b) == RDiv(a * SCALE * Sgn(b), Abs(b))

RECURSIVE SqrtSearch(_, _, _)
SqrtSearch(n, lo, hi) ==
    IF hi - lo <= 1 THEN lo
    ELSE LET mid == (lo + hi) \div 2
         IN  IF mid * mid <= n THEN SqrtSearch(n, mid, hi) ELSE SqrtSearch(n, lo, mid)

\* floor of sqrt(t^2 + dist^2), which lies in 0 .. |t| + |dist|
Hypot(t, dist) == SqrtSearch(t * t + dist * dist, 0, Abs(t) + Abs(dist) + 1)

\* jnp.round: to the nearest integer, halves to the even neighbour
Round(x) ==
    LET f == x \div SCALE
        r == x % SCALE
    IN  IF 2 * r < SCALE THEN f
        ELSE IF 2 * r > SCALE THEN f + 1
        ELSE IF f % 2 = 0 THEN f ELSE f + 1

\* jnp.cos / jnp.sin of an angle given in quarter turns
Cos(q) == CASE q % 4 = 0 -> SCALE [] q % 4 = 1 -> 0 [] q % 4 = 2 -> -SCALE [] OTHER -> 0

Sin(q) == CASE q % 4 = 0 -> 0 [] q % 4 = 1 -> SCALE [] q % 4 = 2 -> 0 [] OTHER -> -SCALE

\* jnp.arctan2(t, dist) for dist > 0, kept as the cosine and sine of the angle
ArcTan2(t, dist) ==
    LET h == Hypot(t, dist)
    IN  [c |-> FxDiv(dist, h), s |-> FxDiv(t, h)]

\* x ** n for an integer power n >= 1
RECURSIVE Pow(_, _)
Pow(x, n) == IF n <= 1 THEN x ELSE FxMul(x, Pow(x, n - 1))

\* an array held as a sequence of computed elements
Arr(f) == f \o <<>>

\* the sum of s[lo..hi], by halves
RECURSIVE SumRange(_, _, _)
SumRange(s, lo, hi) ==
    IF lo > hi THEN 0
    ELSE IF lo = hi THEN s[lo]
    ELSE SumRange(s, lo, (lo + hi) \div 2) + SumRange(s, ((lo + hi) \div 2) + 1, hi)

\* jnp.sum of a 1-D array
SumSeq(s) == SumRange(Arr(s), 1, Len(s))

\* ------------------------------------------------------------------------
\* Array helpers (jnp.tile, .T, .flatten, jnp.unravel_index, jnp.arange)
\* ------------------------------------------------------------------------
\* jnp.tile(v, reps=(n, 1)) of a 1-D array v: n rows, each a copy of v
Tile(v, n) == Arr([r \in 1..n |-> v])

\* M.T of a 2-D array with nr rows and nc columns
Transpose(M, nr, nc) == Arr([c \in 1..nc |-> Arr([r \in 1..nr |-> M[r][c]])])

\* M.flatten() of a 2-D array with nr rows and nc columns (row-major)
Flatten(M, nr, nc) ==
    Arr([e \in 1..(nr * nc) |-> M[((e - 1) \div nc) + 1][((e - 1) % nc) + 1]])

Arange(n) == Arr([s \in 1..n |-> s - 1])

\* jnp.unravel_index(idx, (nrows, ncols)), for idx in range
unravel_index(idx, shape2d) == <<idx \div shape2d[2], idx % shape2d[2]>>

\* ------------------------------------------------------------------------
\* Geometry mapper: the three nested functions of the kernel builder
\* ------------------------------------------------------------------------
recon_ijk_to_xyz(i, j, k, delta_pixel_recon, num_recon_rows, num_recon_cols, num_recon_slices, recon_slice_offset, angle) ==
    LET x_tilde == FxMul(delta_pixel_recon, Fx(i) - (Fx(num_recon_rows - 1) \div 2))
        y_tilde == FxMul(delta_pixel_recon, Fx(j) - (Fx(num_recon_cols - 1) \div 2))
        x == FxMul(Cos(angle), x_tilde) - FxMul(Sin(angle), y_tilde)
        y == FxMul(Sin(angle), x_tilde) + FxMul(Cos(angle), y_tilde)
        z == FxMul(delta_pixel_recon, Fx(k) - (Fx(num_recon_slices - 1) \div 2)) + recon_slice_offset
    IN  [x |-> x, y |-> y, z |-> z]

\* the denominator of the pixel magnification
MagDenominator(y, source_detector_dist, magnification) ==
    FxDiv(source_detector_dist, magnification) - y

geometry_xyz_to_uv_mag(x, y, z, source_detector_dist, magnification) ==
    LET pixel_mag == FxDiv(source_detector_dist, MagDenominator(y, source_detector_dist, magnification))
    IN  [u |-> FxMul(pixel_mag, x), v |-> FxMul(pixel_mag, z), pixel_mag |-> pixel_mag]

detector_uv_to_mn(u, v, det_rotation, delta_det_channel, delta_det_row, det_channel_offset, det_row_offset, num_det_rows, num_det_channels) ==
    LET u_tilde == FxMul(Cos(det_rotation), u) + FxMul(Sin(det_rotation), v)
        v_tilde == FxMul(-Sin(det_rotation), u) + FxMul(Cos(det_rotation), v)
        det_center_channels == Fx(num_det_channels - 1) \div 2
        det_center_rows == Fx(num_det_rows - 1) \div 2
    IN  [m |-> FxDiv(v_tilde, delta_det_row) + det_center_rows + det_row_offset,
         n |-> FxDiv(u_tilde, delta_det_channel) + det_center_channels + det_channel_offset]

\* ------------------------------------------------------------------------
\* Sparse kernel builder: compute_sparse_Bij_Cij_single_view
\* ------------------------------------------------------------------------
\* projector_params = <<sinogram_shape, recon_shape, geometry_params>>, with
\* geometry_params in the order of get_geometry_parameters
get_geometry_parameters(g) ==
    <<g.delta_det_channel, g.delta_det_row, g.det_channel_offset, g.det_row_offset, g.det_rotation,
      g.source_detector_dist, g.magnification, g.delta_pixel_recon, g.recon_slice_offset>>

\* (jnp.tile(index, reps=(num_recon_slices, 1)).T).flatten()
ReplicateNoTranspose(index, num_recon_slices, num_of_indices) ==
    Flatten(Tile(index, num_recon_slices), num_recon_slices, num_of_indices)

ReplicateAlongSlices(index, num_recon_slices, num_of_indices) ==
    Flatten(Transpose(Tile(index, num_recon_slices), num_recon_slices, num_of_indices),
            num_of_indices, num_recon_slices)

\* (jnp.tile(jnp.arange(num_recon_slices), reps=(num_of_indices, 1))).flatten()
SliceIndices(num_recon_slices, num_of_indices) ==
    Flatten(Tile(Arange(num_recon_slices), num_of_indices), num_of_indices, num_recon_slices)

\* range(-p, p + 1): the offsets of the footprint taps
TapOffsetsShort(p) == Arr([t \in 1..(2 * p) |-> t - 1 - p])

TapOffsets(p) == Arr([t \in 1..(2 * p + 1) |-> t - 1 - p])

\* (index >= 0) * (index < num_det): 1 inside the detector, 0 outside
InDetectorNoUpper(index, num_det) == IF index >= 0 THEN 1 ELSE 0

InDetector(index, num_det) == IF index >= 0 /\ index < num_det THEN 1 ELSE 0

\* u, v, pixel_mag of geometry_xyz_to_uv_mag and m, n of detector_uv_to_mn put together
EntryOnDetector(uvm, mn) ==
    [u |-> uvm.u, v |-> uvm.v, pixel_mag |-> uvm.pixel_mag, mp |-> mn.m, np |-> mn.n]

\* mp, np = detector_uv_to_mn(u, v, ...)
EntryOfUvMag(uvm, projector_params) ==
    EntryOnDetector(uvm,
                    detector_uv_to_mn(uvm.u, uvm.v, projector_params[3][5], projector_params[3][1],
                                      projector_params[3][2], projector_params[3][3],
                                      projector_params[3][4], projector_params[1][2],
                                      projector_params[1][3]))

\* u, v, pixel_mag = geometry_xyz_to_uv_mag(x, y, z, ...)
EntryOfXyz(xyz, projector_params) ==
    EntryOfUvMag(geometry_xyz_to_uv_mag(xyz.x, xyz.y, xyz.z, projector_params[3][6],
                                        projector_params[3][7]),
                 projector_params)

\* x, y, z, then u, v, pixel_mag, then mp, np of one (voxel, slice) entry
EntryCoordinates(i, j, k, angle, projector_params) ==
    EntryOfXyz(recon_ijk_to_xyz(i, j, k, projector_params[3][8], projector_params[2][1],
                                projector_params[2][2], projector_params[2][3],
                                projector_params[3][9], angle),
               projector_params)

\* W_col and W_row from cos alpha and the cone angles
WidthsOfCosAlpha(c, gp, cone_angle_channel, cone_angle_row, cos_alpha_col, cos_alpha_row) ==
    [cos_alpha_col |-> cos_alpha_col,
     cos_alpha_row |-> cos_alpha_row,
     W_col |-> FxMul(FxMul(c.pixel_mag, FxDiv(gp[8], gp[1])),
                     FxDiv(cos_alpha_col, cone_angle_channel.c)),
     W_row |-> FxMul(FxMul(c.pixel_mag, FxDiv(gp[8], gp[2])),
                     FxDiv(cos_alpha_row, cone_angle_row.c))]

\* cos_alpha_col = max(|cos(angle - cone_angle_channel)|, |sin(angle - cone_angle_channel)|) and
\* cos_alpha_row = max(|cos(cone_angle_row)|, |sin(cone_angle_row)|)
WidthsOfConeAngles(c, angle, gp, cone_angle_channel, cone_angle_row) ==
    WidthsOfCosAlpha(c, gp, cone_angle_channel, cone_angle_row,
                     Max(Abs(FxMul(Cos(angle), cone_angle_channel.c)
                             + FxMul(Sin(angle), cone_angle_channel.s)),
                         Abs(FxMul(Sin(angle), cone_angle_channel.c)
                             - FxMul(Cos(angle), cone_angle_channel.s))),
                     Max(Abs(cone_angle_row.c), Abs(cone_angle_row.s)))

\* cone angles, cos alpha and the projected voxel widths of one entry
EntryWidths(c, angle, projector_params) ==
    WidthsOfConeAngles(c, angle, projector_params[3],
                       ArcTan2(c.u, projector_params[3][6]), ArcTan2(c.v, projector_params[3][6]))

\* L = maximum(tmp1 - maximum(abs(tmp2), delta), 0), tmp1 = (W + 1) / 2, tmp2 = (W - 1) / 2
FootprintOverlap(W, delta) == Max(((W + SCALE) \div 2) - Max(Abs((W - SCALE) \div 2), delta), 0)

\* round(center) + offset for every tap offset
CandidateIndices(center, offsets) == Arr([t \in DOMAIN offsets |-> Round(center) + offsets[t]])

\* Bij_value of the taps at the indices Bij_channel
BijTaps(c, w, projector_params, Bij_channel) ==
    [index |-> Bij_channel,
     value |-> Arr([t \in DOMAIN Bij_channel |->
                   FxMul(FxDiv(projector_params[3][8], w.cos_alpha_col),
                         FxDiv(FootprintOverlap(w.W_col, Abs(Fx(Bij_channel[t]) - c.mp)),
                               projector_params[3][1]))
                   * InDetector(Bij_channel[t], projector_params[1][3])])]

\* Bij_channel and Bij_value of one entry
BijEntry(c, w, projector_params, p) ==
    BijTaps(c, w, projector_params, CandidateIndices(c.mp, TapOffsets(p)))

\* Cij_value of the taps at the indices Cij_row
CijTaps(c, w, projector_params, Cij_row) ==
    [index |-> Cij_row,
     value |-> Arr([t \in DOMAIN Cij_row |->
                   FxMul(FxDiv(projector_params[3][8], w.cos_alpha_col),
                         FxDiv(FootprintOverlap(w.W_row, Abs(Fx(Cij_row[t]) - c.mp)),
                               projector_params[3][2]))
                   * InDetector(Cij_row[t], projector_params[1][2])])]

\* Cij_row and Cij_value of one entry
CijEntry(c, w, projector_params, p) ==
    CijTaps(c, w, projector_params, CandidateIndices(c.mp, TapOffsets(p)))

\* jnp.unravel_index(pixel_indices, recon_shape[:2]): component 1 the rows, component 2 the columns
UnravelledIndex(pixel_indices, recon_shape, component) ==
    Arr([q \in 1..Len(pixel_indices) |->
            unravel_index(pixel_indices[q], <<recon_shape[1], recon_shape[2]>>)[component]])

\* the i, j, k arrays: the 2-D pixel indices expanded across all slices
ReconIndices(pixel_indices, projector_params) ==
    [i |-> ReplicateAlongSlices(UnravelledIndex(pixel_indices, projector_params[2], 1),
                                projector_params[2][3], Len(pixel_indices)),
     j |-> ReplicateAlongSlices(UnravelledIndex(pixel_indices, projector_params[2], 2),
                                projector_params[2][3], Len(pixel_indices)),
     k |-> SliceIndices(projector_params[2][3], Len(pixel_indices))]

\* source_to_iso_dist - y for every entry of the batch
BatchDenominators(ijk, angle, projector_params) ==
    Arr([e \in DOMAIN ijk.i |->
            MagDenominator(recon_ijk_to_xyz(ijk.i[e], ijk.j[e], ijk.k[e], projector_params[3][8],
                                            projector_params[2][1], projector_params[2][2],
                                            projector_params[2][3], projector_params[3][9], angle).y,
                           projector_params[3][6], projector_params[3][7])])

\* the truth value an if statement takes of a boolean array: while jax.jit traces the function the
\* array is a tracer and the conversion fails; run eagerly, an array of one element gives its value
\* and an array of several elements is ambiguous
TruthOfArray(flags, traced) ==
    IF traced THEN "tracer"
    ELSE IF Len(flags) # 1 THEN "ambiguous"
    ELSE IF flags[1] THEN "true" ELSE "false"

\* if (source_to_iso_dist - y) == 0 : raise ValueError("Invalid geometry: ...")
GuardOfTruth(truth) ==
    CASE truth = "true" -> "geometry"
      [] truth = "false" -> "none"
      [] OTHER -> truth

\* u, v, pixel_mag of one entry at x, y, z
UvMagOfXyz(xyz, projector_params) ==
    geometry_xyz_to_uv_mag(xyz.x, xyz.y, xyz.z, projector_params[3][6], projector_params[3][7])

\* u, v, pixel_mag of the entries whose indices are in ijk
UvMagOfBatch(ijk, angle, projector_params) ==
    Arr([e \in DOMAIN ijk.i |->
            UvMagOfXyz(recon_ijk_to_xyz(ijk.i[e], ijk.j[e], ijk.k[e], projector_params[3][8],
                                        projector_params[2][1], projector_params[2][2],
                                        projector_params[2][3], projector_params[3][9], angle),
                       projector_params)])

\* the call of geometry_xyz_to_uv_mag on the arrays x, y, z of the batch: the check as the
\* statement runs it, then the arrays u, v, pixel_mag
UvMagOfGuard(err, ijk, angle, projector_params) ==
    IF err # "none" THEN [err |-> err]
    ELSE [err |-> "none", entries |-> UvMagOfBatch(ijk, angle, projector_params)]

geometry_xyz_to_uv_mag_of_batch(ijk, angle, projector_params, traced) ==
    UvMagOfGuard(GuardOfTruth(TruthOfArray(
                     Arr([e \in DOMAIN ijk.i |->
                             BatchDenominators(ijk, angle, projector_params)[e] = 0]),
                     traced)),
                 ijk, angle, projector_params)

\* the check of geometry_xyz_to_uv_mag read entry by entry: some entry has a zero denominator.
\* The kernel builder below takes the check in this reading, so that the arithmetic of a whole
\* batch can be examined; the check as the statement runs it is geometry_xyz_to_uv_mag_of_batch
ZeroDenominator(ijk, angle, projector_params) ==
    \E e \in DOMAIN ijk.i :
        MagDenominator(recon_ijk_to_xyz(ijk.i[e], ijk.j[e], ijk.k[e], projector_params[3][8],
                                        projector_params[2][1], projector_params[2][2],
                                        projector_params[2][3], projector_params[3][9], angle).y,
                       projector_params[3][6], projector_params[3][7]) = 0

\* the taps of one entry in both directions
EntryTaps(c, w, projector_params, p) ==
    [Bij |-> BijEntry(c, w, projector_params, p), Cij |-> CijEntry(c, w, projector_params, p)]

\* the widths and then the taps of the entry at the coordinates c
EntryOfCoordinates(c, angle, projector_params, p) ==
    EntryTaps(c, EntryWidths(c, angle, projector_params), projector_params, p)

\* return Bij_value, Bij_channel, Cij_value, Cij_row (with the i, j, k they belong to)
KernelOfEntries(ijk, entries) ==
    [err |-> "none",
     i |-> ijk.i, j |-> ijk.j, k |-> ijk.k,
     Bij_value |-> Arr([e \in DOMAIN entries |-> entries[e].Bij.value]),
     Bij_channel |-> Arr([e \in DOMAIN entries |-> entries[e].Bij.index]),
     Cij_value |-> Arr([e \in DOMAIN entries |-> entries[e].Cij.value]),
     Cij_row |-> Arr([e \in DOMAIN entries |-> entries[e].Cij.index])]

\* the body of the builder once i, j, k are laid out
KernelOfIndices(ijk, angle, projector_params, p) ==
    IF ZeroDenominator(ijk, angle, projector_params)
    THEN [err |-> "geometry"]
    ELSE KernelOfEntries(ijk,
             Arr([e \in DOMAIN ijk.i |->
                     EntryOfCoordinates(EntryCoordinates(ijk.i[e], ijk.j[e], ijk.k[e], angle,
                                                         projector_params),
                                        angle, projector_params, p)]))

compute_sparse_Bij_Cij_single_view(pixel_indices, angle, projector_params, p) ==
    KernelOfIndices(ReconIndices(pixel_indices, projector_params), angle, projector_params, p)

\* ------------------------------------------------------------------------
\* Indexing and broadcasting of jax arrays
\* ------------------------------------------------------------------------
\* a negative index counts from the end of the axis
NormIndex(index, size) == IF index < 0 THEN index + size ELSE index

\* array[index] retrieval: an index out of bounds is clamped to the axis
GatherIndex(index, size) ==
    LET n == NormIndex(index, size)
    IN  IF n < 0 THEN 0 ELSE IF n > size - 1 THEN size - 1 ELSE n

\* the shape of a 2-D array given as a sequence of rows
Shape2(M) == <<Len(M), Len(M[1])>>

\* a shape padded on the left with ones to rank n
PadShape(shape, n) ==
    Arr([d \in 1..n |-> IF d <= n - Len(shape) THEN 1 ELSE shape[d - (n - Len(shape))]])

\* numpy broadcasting of two shapes: the result shape, or <<>> when incompatible
BroadcastShapes(s1, s2) ==
    LET n == Max(Len(s1), Len(s2))
        a == PadShape(s1, n)
        b == PadShape(s2, n)
    IN  IF \A d \in 1..n : a[d] = b[d] \/ a[d] = 1 \/ b[d] = 1
        THEN Arr([d \in 1..n |-> Max(a[d], b[d])])
        ELSE <<>>

\* the element of a rank-2 array stored flat (row-major), 0-based indices
At2(array, q, s) == array.data[q * array.shape[2] + s + 1]

\* ------------------------------------------------------------------------
\* ConeBeamModel.verify_valid_params
\* ------------------------------------------------------------------------
verify_valid_params_channels(super_ok, view_params_rows, sinogram_shape, recon_shape) ==
    IF ~super_ok THEN "super"
    ELSE IF view_params_rows # sinogram_shape[1] THEN "views"
    ELSE IF recon_shape[3] # sinogram_shape[3] THEN "slices"
    ELSE "none"

verify_valid_params(super_ok, view_params_rows, sinogram_shape, recon_shape) ==
    IF ~super_ok THEN "super"
    ELSE IF view_params_rows # sinogram_shape[1] THEN "views"
    ELSE IF recon_shape[3] # sinogram_shape[2] THEN "slices"
    ELSE "none"

\* ------------------------------------------------------------------------
\* ConeBeamModel.back_project_one_view_to_voxel
\* ------------------------------------------------------------------------
\* jnp.sum(A, axis=(1, 2)) of an array of shape (Nv, psf_width, psf_width)
SumAxes01(A) ==
    Arr([b \in 1..Len(A[1][1]) |-> SumSeq([e \in 1..Len(A) |-> SumSeq([a \in 1..Len(A[e]) |-> A[e][a][b]])])])

SumAxes12(A) == Arr([e \in 1..Len(A) |-> SumSeq([a \in 1..Len(A[e]) |-> SumSeq(A[e][a])])])

\* sinogram_view[row_index, col_index], out-of-bounds indices clamped
SinogramAt(sinogram_view, row_index, col_index) ==
    sinogram_view[GatherIndex(row_index, Len(sinogram_view)) + 1]
                 [GatherIndex(col_index, Len(sinogram_view[1])) + 1]

\* sum(sinogram_array * (Bij_value_expanded * Cij_row_expanded) ** coeff_power, axis=(1, 2)) with
\* row_indices[e, a, b] = Cij_row[e, a], col_indices[e, a, b] = Bij_channel[e, b],
\* Bij_value_expanded[e, a, 0] = Bij_value[e, a] and Cij_row_expanded[e, 0, b] = Cij_row[e, b]
BackProjectKernel(sinogram_view, K, coeff_power) ==
    IF K.err # "none" THEN [err |-> K.err]
    ELSE [err |-> "none",
          back_projection |->
              SumAxes12(Arr([e \in DOMAIN K.Bij_value |->
                  Arr([a \in DOMAIN K.Bij_value[e] |->
                      Arr([b \in DOMAIN K.Bij_value[e] |->
                          SinogramAt(sinogram_view, K.Cij_row[e][a], K.Bij_channel[e][b])
                          * Pow(K.Bij_value[e][a] * K.Cij_row[e][b], coeff_power)])])]))]

back_project_one_view_to_voxel(sinogram_view, pixel_index, angle, projector_params, coeff_power) ==
    BackProjectKernel(sinogram_view,
                      compute_sparse_Bij_Cij_single_view(
                          pixel_index, angle,
                          <<<<1>> \o Shape2(sinogram_view), projector_params[2], projector_params[3]>>,
                          1),
                      coeff_power)

\* ------------------------------------------------------------------------
\* ConeBeamModel.forward_project_voxels_one_view
\* ------------------------------------------------------------------------
\* the 0-based indices (q, e, a, b) of flat position n (from 0) of a row-major array of rank 4
Unravel4(n, shape) ==
    <<n \div (shape[2] * shape[3] * shape[4]),
      (n \div (shape[3] * shape[4])) % shape[2],
      (n \div shape[4]) % shape[3],
      n % shape[4]>>

\* lax.index_add(jnp.zeros((Nr, Nc)), (flat_rows, flat_cols), updates): the updates whose
\* normalised indices are (r, c) are summed; an update whose index stays out of bounds is dropped
index_add(Nr, Nc, flat_rows, flat_cols, updates) ==
    Arr([r \in 1..Nr |-> Arr([c \in 1..Nc |->
        SumSeq([n \in 1..Len(updates) |->
            IF /\ NormIndex(flat_rows[n], Nr) = r - 1
               /\ NormIndex(flat_cols[n], Nc) = c - 1
            THEN updates[n]
            ELSE 0])])])

\* voxel_values.ndim != 2
RankBelowTwo(voxel_values) == Len(voxel_values.shape) < 2

RankNotTwo(voxel_values) == Len(voxel_values.shape) # 2

\* rows_expanded = Cij_row[:, :, None] (axis = 3) or cols_expanded = Cij_row[:, None, :] (axis = 4),
\* broadcast to the shape of outer_products and flattened
FlatIndices(Cij_row, outer_shape, axis) ==
    Arr([n \in 1..(outer_shape[1] * outer_shape[2] * outer_shape[3] * outer_shape[4]) |->
            Cij_row[Unravel4(n - 1, outer_shape)[2] + 1][Unravel4(n - 1, outer_shape)[axis] + 1]])

\* the element at ix = (q, e, a, b) of
\* einsum('ki,kj->kij', Bij_value, Bij_value) * voxel_values[:, None, None]
OuterProductAt(Bij_value, voxel_values, ix) ==
    FxMul(Bij_value[ix[2] + 1][ix[3] + 1], Bij_value[ix[2] + 1][ix[4] + 1])
    * At2(voxel_values, ix[1], IF voxel_values.shape[2] = 1 THEN 0 ELSE ix[4])

FlatOuterProducts(Bij_value, voxel_values, outer_shape) ==
    Arr([n \in 1..(outer_shape[1] * outer_shape[2] * outer_shape[3] * outer_shape[4]) |->
            OuterProductAt(Bij_value, voxel_values, Unravel4(n - 1, outer_shape))])

\* the outer products, whose shape is outer_shape, accumulated into a zero view
ScatterOuterProducts(voxel_values, num_det_rows, num_det_channels, K, outer_shape) ==
    IF outer_shape = <<>> THEN [err |-> "broadcast", steps |-> <<"kernel", "zeros">>]
    ELSE [err |-> "none",
          steps |-> <<"kernel", "zeros", "outer", "index_add">>,
          sinogram_view |-> index_add(num_det_rows, num_det_channels,
                                      FlatIndices(K.Cij_row, outer_shape, 3),
                                      FlatIndices(K.Cij_row, outer_shape, 4),
                                      FlatOuterProducts(K.Bij_value, voxel_values, outer_shape))]

\* the body of the projector after the kernel is built; voxel_values[:, None, None] has shape
\* (num_indices, 1, 1, num_slices)
ForwardProjectKernel(voxel_values, num_det_rows, num_det_channels, K) ==
    IF K.err # "none" THEN [err |-> K.err, steps |-> <<"kernel">>]
    ELSE ScatterOuterProducts(voxel_values, num_det_rows, num_det_channels, K,
             BroadcastShapes(<<Len(K.Bij_value), Len(K.Bij_value[1]), Len(K.Bij_value[1])>>,
                             <<voxel_values.shape[1], 1, 1, voxel_values.shape[2]>>))

forward_project_voxels_one_view(voxel_values, pixel_indices, angle, projector_params) ==
    IF RankNotTwo(voxel_values)
    THEN [err |-> "rank", steps |-> <<>>]
    ELSE ForwardProjectKernel(voxel_values, projector_params[1][2], projector_params[1][3],
             compute_sparse_Bij_Cij_single_view(pixel_indices, angle, projector_params, 1))

\* ------------------------------------------------------------------------
\* Inputs of the model
\* ------------------------------------------------------------------------
\* geometry parameters (fixed-point lengths; det_rotation in quarter turns)
GeometrySet ==
    { [delta_det_channel |-> Fx(1), delta_det_row |-> Fx(1),
       det_channel_offset |-> -(SCALE \div 4), det_row_offset |-> SCALE \div 4, det_rotation |-> 0,
       source_detector_dist |-> Fx(8), magnification |-> Fx(1),
       delta_pixel_recon |-> Fx(1), recon_slice_offset |-> 0],
      [delta_det_channel |-> Fx(2), delta_det_row |-> Fx(2),
       det_channel_offset |-> 0, det_row_offset |-> 0, det_rotation |-> 0,
       source_detector_dist |-> Fx(8), magnification |-> Fx(2),
       delta_pixel_recon |-> Fx(1), recon_slice_offset |-> 0],
      [delta_det_channel |-> Fx(1), delta_det_row |-> Fx(1),
       det_channel_offset |-> 0, det_row_offset |-> 0, det_rotation |-> 0,
       source_detector_dist |-> Fx(1), magnification |-> Fx(2),
       delta_pixel_recon |-> Fx(1), recon_slice_offset |-> 0] }

\* (num_det_rows, num_det_channels) of the detector
DetectorShapes == { <<2, 3>>, <<3, 2>>, <<3, 1>> }

\* (rows, cols) of the recon plane
ReconPlanes == { <<1, 1>>, <<2, 1>>, <<1, 2>> }

\* the number of views of the sinogram and the candidate numbers of view angles
ViewCounts == { 1, 2 }

NumViews == CHOOSE n \in ViewCounts : \A m \in ViewCounts : m <= n

\* view angles, in quarter turns
AngleSet == { 0, 1 }

CoeffPowers == { 1, 2 }

\* batches of pixel indices into the flattened recon plane
Batches(num_pixels) == UNION { [1..n -> 0..(num_pixels - 1)] : n \in 1..MaxPix }

\* voxel values: a rank-2 (num_indices, num_slices) array, and the same data with rank 1 and 3
VoxelInputs(num_indices, num_slices) ==
    LET data == Arr([e \in 1..(num_indices * num_slices) |-> e])
    IN  { [shape |-> <<num_indices, num_slices>>, data |-> data],
          [shape |-> <<num_indices * num_slices>>, data |-> data],
          [shape |-> <<num_indices, num_slices, 1>>, data |-> data] }

\* one detector view with distinct values
DetectorView(num_det_rows, num_det_channels) ==
    Arr([r \in 1..num_det_rows |-> Arr([c \in 1..num_det_channels |-> (r - 1) * num_det_channels + c])])

\* ------------------------------------------------------------------------
\* State
\* ------------------------------------------------------------------------
VARIABLES
    model,   \* the parameters of the ConeBeamModel
    args,    \* pixel batch, view angle and sinogram view handed to the kernel and the projectors
    valid,   \* outcome of verify_valid_params
    kernel,  \* outcome of compute_sparse_Bij_Cij_single_view
    fwd,     \* outcome of forward_project_voxels_one_view
    bwd,     \* outcome of back_project_one_view_to_voxel
    uvmag    \* outcome of the call of geometry_xyz_to_uv_mag inside the kernel builder

vars == <<model, args, valid, kernel, fwd, bwd, uvmag>>

NotCalled == [called |-> FALSE]

\* projector_params = (sinogram_shape, recon_shape, get_geometry_params())
ProjectorParams == <<model.sinogram_shape, model.recon_shape, get_geometry_parameters(model.geometry)>>

Init ==
    /\ \E det \in DetectorShapes, plane \in ReconPlanes, ns \in 1..MaxSlices,
          g \in GeometrySet, nangles \in ViewCounts :
          model = [sinogram_shape |-> <<NumViews, det[1], det[2]>>,
                   recon_shape |-> <<plane[1], plane[2], ns>>,
                   geometry |-> g,
                   view_params_rows |-> nangles]
    /\ \E batch \in Batches(model.recon_shape[1] * model.recon_shape[2]), angle \in AngleSet :
          args = [pixel_indices |-> batch,
                  angle |-> angle,
                  sinogram_view |-> DetectorView(model.sinogram_shape[2], model.sinogram_shape[3])]
    /\ valid = NotCalled
    /\ kernel = NotCalled
    /\ fwd = NotCalled
    /\ bwd = NotCalled
    /\ uvmag = NotCalled

\* model.verify_valid_params(); the base class's own checks pass or raise
VerifyValidParams ==
    /\ \E super_ok \in BOOLEAN :
          valid' = [called |-> TRUE, super_ok |-> super_ok,
                    err |-> verify_valid_params(super_ok, model.view_params_rows,
                                                model.sinogram_shape, model.recon_shape)]
    /\ UNCHANGED <<model, args, kernel, fwd, bwd, uvmag>>

\* ConeBeamModel.compute_sparse_Bij_Cij_single_view(pixel_indices, angle, projector_params, p)
ComputeKernel ==
    /\ \E p \in 1..MaxP :
          kernel' = [called |-> TRUE, p |-> p,
                     out |-> compute_sparse_Bij_Cij_single_view(args.pixel_indices, args.angle,
                                                                ProjectorParams, p)]
    /\ UNCHANGED <<model, args, valid, fwd, bwd, uvmag>>

\* ConeBeamModel.forward_project_voxels_one_view(voxel_values, pixel_indices, angle, projector_params)
ForwardProject ==
    /\ \E voxel_values \in VoxelInputs(Len(args.pixel_indices), model.recon_shape[3]) :
          fwd' = [called |-> TRUE, voxel_values |-> voxel_values,
                  out |-> forward_project_voxels_one_view(voxel_values, args.pixel_indices,
                                                          args.angle, ProjectorParams)]
    /\ UNCHANGED <<model, args, valid, kernel, bwd, uvmag>>

\* ConeBeamModel.back_project_one_view_to_voxel(sinogram_view, pixel_index, angle, projector_params,
\* coeff_power)
BackProject ==
    /\ \E coeff_power \in CoeffPowers :
          bwd' = [called |-> TRUE, coeff_power |-> coeff_power,
                  out |-> back_project_one_view_to_voxel(args.sinogram_view, args.pixel_indices,
                                                         args.angle, ProjectorParams, coeff_power)]
    /\ UNCHANGED <<model, args, valid, kernel, fwd, uvmag>>

\* u, v, pixel_mag = geometry_xyz_to_uv_mag(x, y, z, source_detector_dist, magnification) for the
\* batch, the kernel builder being traced by jax.jit (as decorated) or run eagerly
GeometryXyzToUvMag ==
    /\ \E traced \in BOOLEAN :
          uvmag' = [called |-> TRUE, traced |-> traced,
                    out |-> geometry_xyz_to_uv_mag_of_batch(
                                ReconIndices(args.pixel_indices, ProjectorParams),
                                args.angle, ProjectorParams, traced)]
    /\ UNCHANGED <<model, args, valid, kernel, fwd, bwd>>

Next ==
    \/ VerifyValidParams
    \/ GeometryXyzToUvMag
    \/ ComputeKernel
    \/ ForwardProject
    \/ BackProject

Spec == Init /\ [][Next]_vars

\* the operations taken alone: each writes its own variable and reads only model and args
SpecValidate == Init /\ [][VerifyValidParams]_vars

SpecGeometry == Init /\ [][GeometryXyzToUvMag]_vars

SpecKernel == Init /\ [][ComputeKernel]_vars

SpecForward == Init /\ [][ForwardProject]_vars

SpecBack == Init /\ [][BackProject]_vars

SpecProjectors == Init /\ [][ForwardProject \/ BackProject]_vars

\* ------------------------------------------------------------------------
\* Properties
\* ------------------------------------------------------------------------
NumIndices == Len(args.pixel_indices)

NumSlices == model.recon_shape[3]

NumDetRows == model.sinogram_shape[2]

NumDetChannels == model.sinogram_shape[3]

KernelReturned == kernel.called /\ kernel.out.err = "none"

\* the pixel index, recon row, recon column and slice that flattened entry e (from 0) stands for
EntryPixel(e) == args.pixel_indices[(e \div NumSlices) + 1]

EntryRow(e) == EntryPixel(e) \div model.recon_shape[2]

EntryCol(e) == EntryPixel(e) % model.recon_shape[2]

EntrySlice(e) == e % NumSlices

\* the fractional detector coordinates and projected widths of flattened entry e (from 0)
EntryCoords(e) == EntryCoordinates(EntryRow(e), EntryCol(e), EntrySlice(e), args.angle, ProjectorParams)

EntryW(e) == EntryWidths(EntryCoords(e), args.angle, ProjectorParams)

\* C4 (bounds zeroing): in every kernel the builder returns, a channel entry whose detector index is
\* outside [0, num_det_channels) has weight exactly 0 and a row entry whose detector index is outside
\* [0, num_det_rows) has weight exactly 0, and the entry is kept: every row of the four arrays still
\* has its 2p+1 taps.
C4_BoundsZeroing ==
    KernelReturned =>
        \A e \in DOMAIN kernel.out.Bij_channel :
            /\ Len(kernel.out.Bij_channel[e]) = 2 * kernel.p + 1
            /\ Len(kernel.out.Bij_value[e]) = 2 * kernel.p + 1
            /\ Len(kernel.out.Cij_row[e]) = 2 * kernel.p + 1
            /\ Len(kernel.out.Cij_value[e]) = 2 * kernel.p + 1
            /\ \A t \in 1..(2 * kernel.p + 1) :
                  /\ kernel.out.Bij_channel[e][t] \notin 0..(NumDetChannels - 1)
                        => kernel.out.Bij_value[e][t] = 0
                  /\ kernel.out.Cij_row[e][t] \notin 0..(NumDetRows - 1)
                        => kernel.out.Cij_value[e][t] = 0

\* a returned kernel with a channel index beyond the last channel, a row index below 0, and a
\* non-zero weight inside the detector
C4_Witness ==
    /\ KernelReturned
    /\ \E e \in DOMAIN kernel.out.Bij_channel : \E t \in DOMAIN kernel.out.Bij_channel[e] :
          kernel.out.Bij_channel[e][t] >= NumDetChannels /\ kernel.out.Bij_value[e][t] = 0
    /\ \E e \in DOMAIN kernel.out.Cij_row : \E t \in DOMAIN kernel.out.Cij_row[e] :
          kernel.out.Cij_row[e][t] < 0 /\ kernel.out.Cij_value[e][t] = 0
    /\ \E e \in DOMAIN kernel.out.Bij_value : \E t \in DOMAIN kernel.out.Bij_value[e] :
          kernel.out.Bij_value[e][t] > 0

TapWeight(candidate, frac, W, cos_alpha, pitch, num_det) ==
    FxMul(FxDiv(model.geometry.delta_pixel_recon, cos_alpha),
          FxDiv(FootprintOverlap(W, Abs(Fx(candidate) - frac)), pitch))
    * InDetector(candidate, num_det)

\* C10 (candidate detector indices): for every entry the channel indices are the 2p+1 consecutive
\* integers centred at round(n), n the fractional channel coordinate, the row indices those centred
\* at round(m), m the fractional row coordinate, and each direction's tap distance is measured
\* against that direction's fractional coordinate.
C10_CandidateIndices ==
    KernelReturned =>
        \A e \in 0..(NumIndices * NumSlices - 1) : \A t \in 1..(2 * kernel.p + 1) :
            /\ kernel.out.Bij_channel[e + 1][t] = Round(EntryCoords(e).np) - kernel.p + (t - 1)
            /\ kernel.out.Cij_row[e + 1][t] = Round(EntryCoords(e).mp) - kernel.p + (t - 1)
            /\ kernel.out.Bij_value[e + 1][t] =
                  TapWeight(kernel.out.Bij_channel[e + 1][t], EntryCoords(e).np, EntryW(e).W_col,
                            EntryW(e).cos_alpha_col, model.geometry.delta_det_channel, NumDetChannels)
            /\ kernel.out.Cij_value[e + 1][t] =
                  TapWeight(kernel.out.Cij_row[e + 1][t], EntryCoords(e).mp, EntryW(e).W_row,
                            EntryW(e).cos_alpha_col, model.geometry.delta_det_row, NumDetRows)

\* the kernel of the batch and view angle in args, with the default footprint radius
KernelOfArgs == compute_sparse_Bij_Cij_single_view(args.pixel_indices, args.angle, ProjectorParams, 1)

ForwardReturned == fwd.called /\ fwd.out.err = "none"

BackReturned == bwd.called /\ bwd.out.err = "none"

\* sum over the detector cells of D[r, c] * y[r, c]
DetectorDot(D, y) ==
    SumSeq([r \in 1..Len(D) |-> SumSeq([c \in 1..Len(D[r]) |-> D[r][c] * y[r][c]])])

\* C1 (adjointness): with coeff_power = 1, the sum over detector cells of
\* forward_project_voxels_one_view(x)[r, c] * y[r, c] equals the sum over (pixel, slice) entries of
\* x[e] * back_project_one_view_to_voxel(y)[e].
C1_Adjointness ==
    (ForwardReturned /\ BackReturned /\ bwd.coeff_power = 1) =>
        DetectorDot(fwd.out.sinogram_view, args.sinogram_view)
            = SumSeq([e \in 1..Len(bwd.out.back_projection) |->
                         fwd.voxel_values.data[e] * bwd.out.back_projection[e]])

\* C2 (forward scatter-accumulate): the returned view has shape (num_det_rows, num_det_channels)
\* and D[r, c] is the sum over every entry e and every tap pair (a, b) with row_index[e, a] = r and
\* channel_index[e, b] = c of voxel_value[e] * row_weight[e, a] * channel_weight[e, b].
C2_ForwardScatter ==
    ForwardReturned =>
        /\ Len(fwd.out.sinogram_view) = NumDetRows
        /\ \A r \in 1..NumDetRows :
              /\ Len(fwd.out.sinogram_view[r]) = NumDetChannels
              /\ \A c \in 1..NumDetChannels :
                    fwd.out.sinogram_view[r][c] =
                        SumSeq([e \in 1..(NumIndices * NumSlices) |->
                            SumSeq([a \in 1..Len(KernelOfArgs.Cij_row[e]) |->
                                SumSeq([b \in 1..Len(KernelOfArgs.Bij_channel[e]) |->
                                    IF /\ KernelOfArgs.Cij_row[e][a] = r - 1
                                       /\ KernelOfArgs.Bij_channel[e][b] = c - 1
                                    THEN fwd.voxel_values.data[e]
                                         * FxMul(KernelOfArgs.Cij_value[e][a], KernelOfArgs.Bij_value[e][b])
                                    ELSE 0])])])

\* C3 (back projection): entry e of the result is the sum over tap pairs (a, b) of
\* sinogram_view[row_index[e, a], channel_index[e, b]]
\* * (channel_weight[e, b] * row_weight[e, a]) ^ coeff_power, the power taken before the sum.
C3_BackProjection ==
    BackReturned =>
        \A e \in 1..(NumIndices * NumSlices) :
            bwd.out.back_projection[e] =
                SumSeq([a \in 1..Len(KernelOfArgs.Cij_row[e]) |->
                    SumSeq([b \in 1..Len(KernelOfArgs.Bij_channel[e]) |->
                        args.sinogram_view[GatherIndex(KernelOfArgs.Cij_row[e][a], NumDetRows) + 1]
                                          [GatherIndex(KernelOfArgs.Bij_channel[e][b], NumDetChannels) + 1]
                        * Pow(FxMul(KernelOfArgs.Bij_value[e][b], KernelOfArgs.Cij_value[e][a]),
                              bwd.coeff_power)])])

\* C7 (rank check): forward_project_voxels_one_view rejects voxel_values whose rank is not 2 before
\* any computation (no kernel built, no view allocated), and this check never rejects a rank-2 input.
C7_RankCheck ==
    fwd.called =>
        /\ Len(fwd.voxel_values.shape) # 2 => (fwd.out.err = "rank" /\ fwd.out.steps = <<>>)
        /\ Len(fwd.voxel_values.shape) = 2 => fwd.out.err # "rank"

\* a rank-3 voxel_values array rejected before any step of the projection
C7_Witness ==
    /\ fwd.called
    /\ Len(fwd.voxel_values.shape) > 2
    /\ fwd.out.err = "rank"
    /\ fwd.out.steps = <<>>

\* C8 (configuration validation): verify_valid_params raises whenever the number of rows of
\* view_params_array differs from sinogram_shape[0] and whenever recon_shape[2] differs from
\* sinogram_shape[1]; it raises neither error when both equalities hold.
C8_ConfigurationValidation ==
    valid.called =>
        /\ model.view_params_rows # model.sinogram_shape[1] => valid.err # "none"
        /\ model.recon_shape[3] # model.sinogram_shape[2] => valid.err # "none"
        /\ (model.view_params_rows = model.sinogram_shape[1] /\ model.recon_shape[3] = model.sinogram_shape[2])
              => valid.err \notin { "views", "slices" }
        /\ valid.super_ok =>
              (valid.err = "none" <=>
                  (model.view_params_rows = model.sinogram_shape[1]
                   /\ model.recon_shape[3] = model.sinogram_shape[2]))

\* the slice count differs from the detector row count, the view count is right, and validation raised
C8_Witness ==
    /\ valid.called
    /\ valid.super_ok
    /\ model.view_params_rows = model.sinogram_shape[1]
    /\ model.recon_shape[3] # model.sinogram_shape[2]
    /\ valid.err = "slices"

ZeroDenominatorEntries ==
    { e \in 1..(NumIndices * NumSlices) :
        BatchDenominators(ReconIndices(args.pixel_indices, ProjectorParams), args.angle,
                          ProjectorParams)[e] = 0 }

\* C11 (degenerate geometry): when some (voxel, slice) entry of the batch has a magnification
\* denominator of exactly zero the call fails with the invalid-geometry error for the whole batch
\* and returns nothing; when no entry has one, the check raises nothing and u, v, pixel_mag are
\* computed for every entry.
C11_DegenerateGeometry ==
    uvmag.called =>
        /\ ZeroDenominatorEntries # {} => uvmag.out.err = "geometry"
        /\ ZeroDenominatorEntries = {} =>
              /\ uvmag.out.err = "none"
              /\ Len(uvmag.out.entries) = NumIndices * NumSlices

\* entry e (from 0) is aligned with the detector grid: view angle 0, detector offsets 0, integer
\* fractional detector indices, projected widths of one detector cell and cos alpha of 1
AlignedEntry(e) ==
    /\ args.angle = 0
    /\ model.geometry.det_channel_offset = 0
    /\ model.geometry.det_row_offset = 0
    /\ EntryCoords(e).np % SCALE = 0
    /\ EntryCoords(e).mp % SCALE = 0
    /\ EntryW(e).W_col = SCALE
    /\ EntryW(e).W_row = SCALE
    /\ EntryW(e).cos_alpha_col = SCALE
    /\ EntryW(e).cos_alpha_row = SCALE

\* the weights of the taps of a normalised footprint: ratio at the central tap, 0 at the side taps
NormalisedTaps(p, ratio) == Arr([t \in 1..(2 * p + 1) |-> IF t = p + 1 THEN ratio ELSE 0])

\* C12 (footprint normalization): for an entry aligned with the detector grid whose projected width
\* is 1 and whose cos alpha is 1, the overlap L is 1 at distance 0 and 0 at the distances of the
\* side taps, the central channel weight is voxel_pitch / channel_pitch, the central row weight is
\* voxel_pitch / row_pitch, and all side weights are 0.
C12_FootprintNormalization ==
    KernelReturned =>
        \A e \in 0..(NumIndices * NumSlices - 1) :
            AlignedEntry(e) =>
                /\ FootprintOverlap(EntryW(e).W_col, 0) = SCALE
                /\ FootprintOverlap(EntryW(e).W_row, 0) = SCALE
                /\ \A d \in 1..kernel.p :
                      /\ FootprintOverlap(EntryW(e).W_col, Fx(d)) = 0
                      /\ FootprintOverlap(EntryW(e).W_row, Fx(d)) = 0
                /\ kernel.out.Bij_value[e + 1] =
                      NormalisedTaps(kernel.p, FxDiv(model.geometry.delta_pixel_recon,
                                                     model.geometry.delta_det_channel))
                /\ kernel.out.Cij_value[e + 1] =
                      NormalisedTaps(kernel.p, FxDiv(model.geometry.delta_pixel_recon,
                                                     model.geometry.delta_det_row))

\* every non-zero update of the scatter has its row index and its column index inside the detector
ScatterInsideDetector(flat_rows, flat_cols, updates) ==
    \A n \in DOMAIN updates :
        updates[n] # 0 =>
            /\ flat_rows[n] \in 0..(NumDetRows - 1)
            /\ flat_cols[n] \in 0..(NumDetChannels - 1)

\* the scatter of the forward projector with the kernel K and the shape of its outer products
ForwardInsideDetector(K, outer_shape) ==
    ScatterInsideDetector(FlatIndices(K.Cij_row, outer_shape, 3),
                          FlatIndices(K.Cij_row, outer_shape, 4),
                          FlatOuterProducts(K.Bij_value, fwd.voxel_values, outer_shape))

\* the term of tap pair (a, b) of entry e in the sum of the back projector
BackTerm(K, e, a, b) ==
    SinogramAt(args.sinogram_view, K.Cij_row[e][a], K.Bij_channel[e][b])
    * Pow(K.Bij_value[e][a] * K.Cij_row[e][b], bwd.coeff_power)

\* every tap pair of the back projector with an index outside the detector has a zero term
BackOutsideIsZero(K) ==
    \A e \in DOMAIN K.Cij_row : \A a \in DOMAIN K.Cij_row[e] : \A b \in DOMAIN K.Bij_channel[e] :
        (K.Cij_row[e][a] \notin 0..(NumDetRows - 1) \/ K.Bij_channel[e][b] \notin 0..(NumDetChannels - 1))
            => BackTerm(K, e, a, b) = 0

\* C13 (out-of-detector safety, forward): every non-zero contribution of
\* forward_project_voxels_one_view is accumulated at a (row, column) with 0 <= row < num_det_rows
\* and 0 <= column < num_det_channels.
C13_ForwardSafety ==
    ForwardReturned =>
        ForwardInsideDetector(KernelOfArgs,
            BroadcastShapes(<<Len(KernelOfArgs.Bij_value), Len(KernelOfArgs.Bij_value[1]),
                              Len(KernelOfArgs.Bij_value[1])>>,
                            <<fwd.voxel_values.shape[1], 1, 1, fwd.voxel_values.shape[2]>>))

\* C13 (out-of-detector safety, back): every tap pair of back_project_one_view_to_voxel whose row
\* index or channel index is outside the detector contributes exactly 0 to the result.
C13_BackSafety == BackReturned => BackOutsideIsZero(KernelOfArgs)

\* C13 (out-of-detector safety of both projectors): no detector cell outside the detector is touched
\* with a non-zero weight: the forward projector accumulates every non-zero contribution inside
\* the detector, and in the back projector every tap pair with an index outside the detector
\* contributes exactly 0.
C13_OutOfDetectorSafety == C13_ForwardSafety /\ C13_BackSafety

====
